---- MODULE Spec2Model ----
(***************************************************************************)
(* Model of the ACATN configuration manager (src/config.py).               *)
(*                                                                         *)
(* Texts (environment values, string fields) are sequences of one-         *)
(* character strings, so that str.replace, str.startswith, float() and     *)
(* int() are computed character by character.  A float is held as an       *)
(* integer number of thousandths (0.1 is 100); every numeric text of the   *)
(* model has at most three fraction digits.  The numeric texts are drawn   *)
(* from the alphabet of digits, ".", "+", "-" and the letters a, b, c, on  *)
(* which the grammars below are exactly those of Python's float() and      *)
(* int().                                                                  *)
(***************************************************************************)
EXTENDS Integers, Sequences, FiniteSets, TLC

\* ------------------------------------------------------------------ bounds
MaxAccesses == 3        \* ConfigManager() calls made by sequential callers
MaxSetattr == 1         \* attribute assignments made by callers
MaxEnvChanges == 1      \* os.environ changes made after start
NumThreads == 2         \* threads of the concurrent specification

Threads == 1..NumThreads

\* ------------------------------------------------------------------- texts
PEM_HEADER ==
    <<"-", "-", "-", "-", "-", "B", "E", "G", "I", "N", " ", "P", "R", "I", "V",
      "A", "T", "E", " ", "K", "E", "Y", "-", "-", "-", "-", "-">>
DEFAULT_AUTH_URI ==
    <<"h", "t", "t", "p", "s", ":", "/", "/", "a", "c", "c", "o", "u", "n", "t",
      "s", ".", "g", "o", "o", "g", "l", "e", ".", "c", "o", "m", "/", "o", "/", "o",
      "a", "u", "t", "h", "2", "/", "a", "u", "t", "h">>
DEFAULT_TOKEN_URI ==
    <<"h", "t", "t", "p", "s", ":", "/", "/", "o", "a", "u", "t", "h", "2", ".",
      "g", "o", "o", "g", "l", "e", "a", "p", "i", "s", ".", "c", "o", "m", "/", "t",
      "o", "k", "e", "n">>
DEFAULT_AUTH_PROVIDER_CERT_URL ==
    <<"h", "t", "t", "p", "s", ":", "/", "/", "w", "w", "w", ".", "g", "o", "o",
      "g", "l", "e", "a", "p", "i", "s", ".", "c", "o", "m", "/", "o", "a", "u", "t",
      "h", "2", "/", "v", "1", "/", "c", "e", "r", "t", "s">>

\* Optional list values: Python's None and a list object.
None == [tag |-> "None"]
List(items) == [tag |-> "list", items |-> items]

DEFAULT_CRYPTO_SYMBOLS == List(<<"BTC/USDT", "ETH/USDT", "SOL/USDT">>)
DEFAULT_STOCK_SYMBOLS == List(<<"AAPL", "MSFT", "GOOGL">>)
DEFAULT_COMMODITY_SYMBOLS == List(<<"GC=F", "SI=F", "CL=F">>)

\* ------------------------------------------------------- environment reads
\* os.getenv(key, default) on an environment held as a partial map.
getenv(e, key, default) == IF key \in DOMAIN e THEN e[key] ELSE default

\* load_dotenv(): variables of the .env file are added to the environment;
\* a variable the process already has is not overridden.
load_dotenv(e, file) ==
    [k \in DOMAIN e \cup DOMAIN file |-> IF k \in DOMAIN e THEN e[k] ELSE file[k]]

\* str.replace('\\n', '\n'): every backslash followed by n becomes a newline,
\* scanning left to right without overlap.
RECURSIVE replace_newlines(_)
replace_newlines(s) ==
    IF Len(s) < 2 THEN s
    ELSE IF s[1] = "\\" /\ s[2] = "n"
         THEN <<"\n">> \o replace_newlines(SubSeq(s, 3, Len(s)))
         ELSE <<s[1]>> \o replace_newlines(Tail(s))

\* str.startswith(prefix)
startswith(s, prefix) ==
    /\ Len(s) >= Len(prefix)
    /\ SubSeq(s, 1, Len(prefix)) = prefix

\* ---------------------------------------------------------- float(), int()
Digits == {"0", "1", "2", "3", "4", "5", "6", "7", "8", "9"}

DigitVal(c) ==
    CASE c = "0" -> 0 [] c = "1" -> 1 [] c = "2" -> 2 [] c = "3" -> 3
      [] c = "4" -> 4 [] c = "5" -> 5 [] c = "6" -> 6 [] c = "7" -> 7
      [] c = "8" -> 8 [] c = "9" -> 9

RECURSIVE NatVal(_)
NatVal(s) == IF s = <<>> THEN 0
             ELSE NatVal(SubSeq(s, 1, Len(s) - 1)) * 10 + DigitVal(s[Len(s)])

HasSign(s) == s # <<>> /\ s[1] \in {"+", "-"}
Unsigned(s) == IF HasSign(s) THEN Tail(s) ELSE s
SignOf(s) == IF HasSign(s) /\ s[1] = "-" THEN -1 ELSE 1

\* int(text) succeeds on an optional sign followed by one or more digits.
IntOk(s) ==
    LET u == Unsigned(s)
    IN  u # <<>> /\ \A i \in 1..Len(u) : u[i] \in Digits

IntVal(s) == SignOf(s) * NatVal(Unsigned(s))

\* float(text) succeeds on an optional sign followed by digits with at most
\* one point and at least one digit.
FloatOk(s) ==
    LET u == Unsigned(s)
    IN  /\ \A i \in 1..Len(u) : u[i] \in Digits \cup {"."}
        /\ Cardinality({i \in 1..Len(u) : u[i] = "."}) <= 1
        /\ \E i \in 1..Len(u) : u[i] \in Digits

\* The value of a float text, in thousandths.
FloatVal(s) ==
    LET u == Unsigned(s)
        dots == {i \in 1..Len(u) : u[i] = "."}
        p == IF dots = {} THEN Len(u) + 1 ELSE CHOOSE i \in dots : TRUE
        whole == SubSeq(u, 1, p - 1)
        frac == SubSeq(u, p + 1, Len(u))
        f3 == SubSeq(frac \o <<"0", "0", "0">>, 1, 3)
    IN  SignOf(s) * (NatVal(whole) * 1000 + NatVal(f3))

\* float(os.getenv(key, default)) and int(os.getenv(key, default)) in a
\* class body: a value, or the ValueError the conversion raises.
FloatFieldLenient(e, key, default) ==
    LET t == getenv(e, key, default)
    IN  IF FloatOk(t) THEN [ok |-> TRUE, value |-> FloatVal(t)]
        ELSE [ok |-> TRUE, value |-> FloatVal(default)]

FloatField(e, key, default) ==
    LET t == getenv(e, key, default)
    IN  IF FloatOk(t) THEN [ok |-> TRUE, value |-> FloatVal(t)]
        ELSE [ok |-> FALSE, value |-> 0]

IntField(e, key, default) ==
    LET t == getenv(e, key, default)
    IN  IF IntOk(t) THEN [ok |-> TRUE, value |-> IntVal(t)]
        ELSE [ok |-> FALSE, value |-> 0]

\* ------------------------------------------------- the three class bodies
\* The field defaults are evaluated once, when the class statement runs.
FirebaseFields ==
    {"type", "project_id", "private_key_id", "private_key", "client_email",
     "client_id", "auth_uri", "token_uri", "auth_provider_x509_cert_url",
     "client_x509_cert_url"}
TradingFields ==
    {"max_position_size", "max_daily_loss", "max_correlation_threshold",
     "min_volatility_threshold", "crypto_symbols", "stock_symbols",
     "commodity_symbols", "historical_days", "data_update_interval"}
RLFields ==
    {"learning_rate", "gamma", "epsilon_start", "epsilon_end", "epsilon_decay",
     "replay_buffer_size", "batch_size", "target_update_frequency"}

FirebaseClassBody(e) ==
    [type |-> getenv(e, "FIREBASE_TYPE", <<>>),
     project_id |-> getenv(e, "FIREBASE_PROJECT_ID", <<>>),
     private_key_id |-> getenv(e, "FIREBASE_PRIVATE_KEY_ID", <<>>),
     private_key |-> replace_newlines(getenv(e, "FIREBASE_PRIVATE_KEY", <<>>)),
     client_email |-> getenv(e, "FIREBASE_CLIENT_EMAIL", <<>>),
     client_id |-> getenv(e, "FIREBASE_CLIENT_ID", <<>>),
     auth_uri |-> getenv(e, "FIREBASE_AUTH_URI", DEFAULT_AUTH_URI),
     token_uri |-> getenv(e, "FIREBASE_TOKEN_URI", DEFAULT_TOKEN_URI),
     auth_provider_x509_cert_url |->
         getenv(e, "FIREBASE_AUTH_PROVIDER_CERT_URL", DEFAULT_AUTH_PROVIDER_CERT_URL),
     client_x509_cert_url |-> getenv(e, "FIREBASE_CLIENT_CERT_URL", <<>>)]

\* Each numeric entry is the [ok, value] outcome of its conversion.
TradingClassBody(e) ==
    [max_position_size |-> FloatField(e, "MAX_POSITION_SIZE", <<"0", ".", "1">>),
     max_daily_loss |-> FloatField(e, "MAX_DAILY_LOSS", <<"0", ".", "0", "2">>),
     max_correlation_threshold |-> FloatField(e, "MAX_CORRELATION", <<"0", ".", "8">>),
     min_volatility_threshold |->
         FloatField(e, "MIN_VOLATILITY", <<"0", ".", "0", "0", "5">>),
     historical_days |-> IntField(e, "HISTORICAL_DAYS", <<"3", "6", "5">>),
     data_update_interval |-> IntField(e, "DATA_UPDATE_INTERVAL", <<"3", "0", "0">>)]

RLClassBody(e) ==
    [learning_rate |-> FloatField(e, "RL_LEARNING_RATE", <<"0", ".", "0", "0", "1">>),
     gamma |-> FloatField(e, "RL_GAMMA", <<"0", ".", "9", "9">>),
     epsilon_start |-> FloatField(e, "RL_EPSILON_START", <<"1", ".", "0">>),
     epsilon_end |-> FloatField(e, "RL_EPSILON_END", <<"0", ".", "0", "1">>),
     epsilon_decay |-> FloatField(e, "RL_EPSILON_DECAY", <<"0", ".", "9", "9", "5">>),
     replay_buffer_size |-> IntField(e, "REPLAY_BUFFER_SIZE", <<"1", "0", "0", "0", "0">>),
     batch_size |-> IntField(e, "BATCH_SIZE", <<"6", "4">>),
     target_update_frequency |-> IntField(e, "TARGET_UPDATE_FREQ", <<"1", "0">>)]

\* The class statements of the module succeed when no conversion raises.
ClassBodiesOk(e) ==
    /\ \A f \in DOMAIN TradingClassBody(e) : TradingClassBody(e)[f].ok
    /\ \A f \in DOMAIN RLClassBody(e) : RLClassBody(e)[f].ok

\* The class-level defaults the three dataclasses hold once defined.
ClassDefaults(e) ==
    [firebase |-> FirebaseClassBody(e),
     trading |-> [f \in DOMAIN TradingClassBody(e) |-> TradingClassBody(e)[f].value],
     rl |-> [f \in DOMAIN RLClassBody(e) |-> RLClassBody(e)[f].value]]

\* ------------------------------------------------------------ log records
LogEntry(level, message, detail) ==
    [level |-> level, message |-> message, detail |-> detail]

\* ------------------------------------------------------------ FirebaseConfig
\* FirebaseConfig(): an instance takes the class-level defaults.
FirebaseConfig(d) == d.firebase

required_fields_short == <<"project_id", "private_key">>

required_fields == <<"project_id", "private_key", "client_email">>

\* validate() with the outcome [result, log]; it assigns nothing.
validate_no_format(self) ==
    LET missing == SelectSeq(required_fields, LAMBDA f : self[f] = <<>>)
    IN  IF missing # <<>>
        THEN [result |-> FALSE,
              log |-> <<LogEntry("ERROR", "Missing Firebase config fields", missing)>>]
        ELSE [result |-> TRUE, log |-> <<>>]

validate(self) ==
    LET missing == SelectSeq(required_fields, LAMBDA f : self[f] = <<>>)
    IN  IF missing # <<>>
        THEN [result |-> FALSE,
              log |-> <<LogEntry("ERROR", "Missing Firebase config fields", missing)>>]
        ELSE IF ~startswith(self.private_key, PEM_HEADER)
        THEN [result |-> FALSE,
              log |-> <<LogEntry("ERROR", "Firebase private key format invalid", <<>>)>>]
        ELSE [result |-> TRUE, log |-> <<>>]

\* ------------------------------------------------------------- TradingConfig
__post_init___falsy(self) ==
    [self EXCEPT
        !.crypto_symbols =
            IF @ = None \/ @ = List(<<>>) THEN DEFAULT_CRYPTO_SYMBOLS ELSE @,
        !.stock_symbols =
            IF @ = None \/ @ = List(<<>>) THEN DEFAULT_STOCK_SYMBOLS ELSE @,
        !.commodity_symbols =
            IF @ = None \/ @ = List(<<>>) THEN DEFAULT_COMMODITY_SYMBOLS ELSE @]

__post_init__(self) ==
    [self EXCEPT
        !.crypto_symbols = IF @ = None THEN DEFAULT_CRYPTO_SYMBOLS ELSE @,
        !.stock_symbols = IF @ = None THEN DEFAULT_STOCK_SYMBOLS ELSE @,
        !.commodity_symbols = IF @ = None THEN DEFAULT_COMMODITY_SYMBOLS ELSE @]

\* TradingConfig(crypto_symbols=..., stock_symbols=..., commodity_symbols=...):
\* the generated __init__ stores the numeric defaults and the three list
\* arguments (None when not passed), then runs __post_init__.
TradingConfig(d, crypto, stock, commodity) ==
    __post_init__(
        [f \in TradingFields |->
            CASE f = "crypto_symbols" -> crypto
              [] f = "stock_symbols" -> stock
              [] f = "commodity_symbols" -> commodity
              [] OTHER -> d.trading[f]])

\* ------------------------------------------------------------------ RLConfig
RLConfig(d) == d.rl

\* ------------------------------------------------------------- ConfigManager
\* An instance is its attribute dictionary: a map from the names of the
\* attributes that are set to their values.
NewObject == <<>>

SetAttr(obj, name, value) ==
    [a \in DOMAIN obj \cup {name} |-> IF a = name THEN value ELSE obj[a]]

GroupNames == {"firebase", "trading", "rl"}

\* The statements of _initialize at which an exception may be raised; the
\* handler of lines 107-109 logs it and re-raises.
Faults == {"none", "firebase", "trading", "rl"}

\* _initialize() with the outcome [self, raised, log].
_initialize_strict(self, d, fault) ==
    LET s1 == SetAttr(self, "firebase", FirebaseConfig(d))
        s2 == SetAttr(s1, "trading", TradingConfig(d, None, None, None))
        s3 == SetAttr(s2, "rl", RLConfig(d))
        v == validate(s3.firebase)
        failed(obj, lg) ==
            [self |-> obj, raised |-> TRUE,
             log |-> lg \o <<LogEntry("ERROR", "Configuration initialization failed",
                                      <<fault>>)>>]
    IN  CASE fault = "firebase" -> failed(self, <<>>)
          [] fault = "trading" -> failed(s1, <<>>)
          [] fault = "rl" -> failed(s2, <<>>)
          [] OTHER ->
              IF ~v.result
              THEN failed(s3, v.log)
              ELSE [self |-> s3, raised |-> FALSE,
                    log |-> v.log \o
                        <<LogEntry("SUCCESS", "Configuration initialized successfully",
                                   <<>>)>>]

_initialize(self, d, fault) ==
    LET s1 == SetAttr(self, "firebase", FirebaseConfig(d))
        s2 == SetAttr(s1, "trading", TradingConfig(d, None, None, None))
        s3 == SetAttr(s2, "rl", RLConfig(d))
        v == validate(s3.firebase)
        failed(obj, lg) ==
            [self |-> obj, raised |-> TRUE,
             log |-> lg \o <<LogEntry("ERROR", "Configuration initialization failed",
                                      <<fault>>)>>]
    IN  CASE fault = "firebase" -> failed(self, <<>>)
          [] fault = "trading" -> failed(s1, <<>>)
          [] fault = "rl" -> failed(s2, <<>>)
          [] OTHER ->
              [self |-> s3, raised |-> FALSE,
               log |-> v.log
                   \o (IF ~v.result
                       THEN <<LogEntry("WARNING",
                                "Firebase config validation failed - proceeding without Firebase",
                                <<>>)>>
                       ELSE <<>>)
                   \o <<LogEntry("SUCCESS", "Configuration initialized successfully",
                                 <<>>)>>]

\* The test `cls._instance is None`; 0 stands for None.
InstanceIsNoneAlways(inst) == TRUE

InstanceIsNone(inst) == inst = 0

__new___refresh(inst, objs, d, fault) ==
    LET i == IF InstanceIsNone(inst) THEN Len(objs) + 1 ELSE inst
        r == _initialize(NewObject, d, fault)
    IN  [instance |-> i,
         heap |-> IF InstanceIsNone(inst) THEN Append(objs, r.self)
                  ELSE [objs EXCEPT ![i] = r.self],
         raised |-> r.raised,
         ran_init |-> TRUE,
         log |-> r.log,
         result |-> IF r.raised THEN 0 ELSE i]

\* ConfigManager(): __new__ run to completion by one caller, with the outcome
\* [instance, heap, raised, ran_init, log, result].
__new__(inst, objs, d, fault) ==
    IF InstanceIsNone(inst)
    THEN LET i == Len(objs) + 1
             r == _initialize(NewObject, d, fault)
         IN  [instance |-> i,
              heap |-> Append(objs, r.self),
              raised |-> r.raised,
              ran_init |-> TRUE,
              log |-> r.log,
              result |-> IF r.raised THEN 0 ELSE i]
    ELSE [instance |-> inst, heap |-> objs, raised |-> FALSE, ran_init |-> FALSE,
          log |-> <<>>, result |-> inst]

\* dataclasses.asdict(obj): every declared field of the class with its value.
asdict(obj, fields) == [f \in fields |-> obj[f]]

to_dict_redacted(self) ==
    IF GroupNames \subseteq DOMAIN self
    THEN [raised |-> FALSE,
          result |-> [firebase |-> [asdict(self.firebase, FirebaseFields)
                                       EXCEPT !.private_key = <<"*", "*", "*">>],
                      trading |-> asdict(self.trading, TradingFields),
                      rl |-> asdict(self.rl, RLFields)]]
    ELSE [raised |-> TRUE, result |-> <<>>]

\* to_dict() with the outcome [raised, result]; reading a group attribute
\* that was never set raises AttributeError.
to_dict(self) ==
    IF GroupNames \subseteq DOMAIN self
    THEN [raised |-> FALSE,
          result |-> [firebase |-> asdict(self.firebase, FirebaseFields),
                      trading |-> asdict(self.trading, TradingFields),
                      rl |-> asdict(self.rl, RLFields)]]
    ELSE [raised |-> TRUE, result |-> <<>>]

\* ==================================================================== state
VARIABLES
    environ,        \* os.environ: the variables that are set, with their texts
    dotenv_file,    \* the variables of the .env file
    module,         \* "unloaded", "loaded" or "failed": the import of config.py
    class_env,      \* the environment the class bodies were evaluated in
    defaults,       \* the class-level field defaults of the three dataclasses
    _instance,      \* ConfigManager._instance: an index into heap, 0 for None
    heap,           \* the ConfigManager objects allocated so far
    init_count,     \* how many times _initialize has run
    returned,       \* per sequential ConfigManager() call, the instance it
                    \* returned (0 when the call raised)
    n_setattr,      \* attribute assignments made by callers so far
    n_env,          \* environment changes made after start so far
    last,           \* the last operation: its arguments, outcome and log lines
    pc,             \* per thread, its position in __new__
    ret             \* per thread, the instance its call returned (0: none yet)

vars == <<environ, dotenv_file, module, class_env, defaults, _instance, heap,
          init_count, returned, n_setattr, n_env, last, pc, ret>>

\* ----------------------------------------------------------- initial states
\* The escaped one-line form of a well-formed key, a key without the PEM
\* header, and a key that stops one character short of the header.
KeyTexts ==
    <<PEM_HEADER \o <<"\\", "n", "X", "Y", "Z">>,
      <<"X", "Y", "Z">>,
      SubSeq(PEM_HEADER, 1, Len(PEM_HEADER) - 1)>>

FirebaseOptions ==
    [FIREBASE_PROJECT_ID |-> << <<"p", "1">> >>,
     FIREBASE_PRIVATE_KEY |-> KeyTexts,
     FIREBASE_CLIENT_EMAIL |-> << <<"a", "@", "b", ".", "c", "o", "m">> >>]

\* Environments that set any subset of the three required credentials.
FirebaseEnvs ==
    LET keys == DOMAIN FirebaseOptions
        picks == {c \in [keys -> 0..3] : \A k \in keys : c[k] <= Len(FirebaseOptions[k])}
    IN  {[k \in {x \in keys : c[x] # 0} |-> FirebaseOptions[k][c[k]]] : c \in picks}

\* The environment of the specification's scenario: the three credentials set.
ScenarioEnv ==
    [FIREBASE_PROJECT_ID |-> <<"p", "1">>,
     FIREBASE_PRIVATE_KEY |-> KeyTexts[1],
     FIREBASE_CLIENT_EMAIL |-> <<"a", "@", "b", ".", "c", "o", "m">>]

FloatKeys ==
    {"MAX_POSITION_SIZE", "MAX_DAILY_LOSS", "MAX_CORRELATION", "MIN_VOLATILITY",
     "RL_LEARNING_RATE", "RL_GAMMA", "RL_EPSILON_START", "RL_EPSILON_END",
     "RL_EPSILON_DECAY"}
IntKeys ==
    {"HISTORICAL_DAYS", "DATA_UPDATE_INTERVAL", "REPLAY_BUFFER_SIZE", "BATCH_SIZE",
     "TARGET_UPDATE_FREQ"}
NumericKeys == FloatKeys \cup IntKeys

NumericTexts == {<<"3", "2">>, <<"-", "3", ".", "5">>, <<"a", "b", "c">>}

\* Environments that set the credentials and one numeric variable.
NumericEnvs ==
    {ScenarioEnv @@ (k :> t) : k \in NumericKeys, t \in NumericTexts}

DotenvFiles ==
    {<<>>,
     [MAX_POSITION_SIZE |-> <<"a", "b", "c">>, FIREBASE_PROJECT_ID |-> <<"p", "2">>]}

Init ==
    /\ environ \in FirebaseEnvs \cup NumericEnvs
    /\ dotenv_file \in DotenvFiles
    /\ module = "unloaded"
    /\ class_env = <<>>
    /\ defaults = <<>>
    /\ _instance = 0
    /\ heap = <<>>
    /\ init_count = 0
    /\ returned = <<>>
    /\ n_setattr = 0
    /\ n_env = 0
    /\ last = [op |-> "start", self |-> 0, args |-> <<>>, raised |-> FALSE,
               result |-> <<>>, log |-> <<>>]
    /\ pc = [t \in Threads |-> "start"]
    /\ ret = [t \in Threads |-> 0]

Outcome(op, self, args, raised, result, log) ==
    [op |-> op, self |-> self, args |-> args, raised |-> raised,
     result |-> result, log |-> log]

\* ------------------------------------------------------------------ actions
\* import config, up to the class statements: load_dotenv(), then the class
\* bodies, whose field defaults read the environment.  A conversion that
\* raises aborts the import.
LoadModule ==
    /\ module = "unloaded"
    /\ LET e == load_dotenv(environ, dotenv_file)
       IN  /\ environ' = e
           /\ class_env' = e
           /\ IF ClassBodiesOk(e)
              THEN /\ module' = "loaded"
                   /\ defaults' = ClassDefaults(e)
              ELSE /\ module' = "failed"
                   /\ defaults' = defaults
           /\ last' = Outcome("import", 0, <<>>, ~ClassBodiesOk(e), <<>>, <<>>)
    /\ UNCHANGED <<dotenv_file, _instance, heap, init_count, returned, n_setattr,
                   n_env, pc, ret>>

\* A sequential caller evaluates ConfigManager(); the first such call is the
\* one of line 125.
Access(fault) ==
    /\ module = "loaded"
    /\ Len(returned) < MaxAccesses
    /\ LET r == __new__(_instance, heap, defaults, fault)
       IN  /\ r.ran_init \/ fault = "none"
           /\ _instance' = r.instance
           /\ heap' = r.heap
           /\ init_count' = IF r.ran_init THEN init_count + 1 ELSE init_count
           /\ returned' = Append(returned, r.result)
           /\ last' = Outcome("ConfigManager", r.result,
                              [fault |-> fault, ran_init |-> r.ran_init],
                              r.raised, r.result, r.log)
    /\ UNCHANGED <<environ, dotenv_file, module, class_env, defaults, n_setattr,
                   n_env, pc, ret>>

\* The instances callers hold a reference to.
Held == {returned[k] : k \in 1..Len(returned)} \ {0}

\* A caller evaluates config.firebase.validate().
Validate(i) ==
    /\ i \in Held
    /\ "firebase" \in DOMAIN heap[i]
    /\ LET v == validate(heap[i].firebase)
       IN  last' = Outcome("validate", i, <<>>, FALSE, v.result, v.log)
    /\ UNCHANGED <<environ, dotenv_file, module, class_env, defaults, _instance,
                   heap, init_count, returned, n_setattr, n_env, pc, ret>>

\* A caller evaluates config.to_dict().
ToDict(i) ==
    /\ i \in Held
    /\ LET r == to_dict(heap[i])
       IN  last' = Outcome("to_dict", i, <<>>, r.raised, r.result, <<>>)
    /\ UNCHANGED <<environ, dotenv_file, module, class_env, defaults, _instance,
                   heap, init_count, returned, n_setattr, n_env, pc, ret>>

\* A caller evaluates config.save_to_firebase(): the body is `pass`.
SaveToFirebase(i) ==
    /\ i \in Held
    /\ last' = Outcome("save_to_firebase", i, <<>>, FALSE, None, <<>>)
    /\ UNCHANGED <<environ, dotenv_file, module, class_env, defaults, _instance,
                   heap, init_count, returned, n_setattr, n_env, pc, ret>>

\* The assignments a caller makes through a reference: the dataclasses are
\* not frozen.
Assignments ==
    <<[group |-> "trading", field |-> "max_position_size", value |-> 500],
      [group |-> "firebase", field |-> "project_id", value |-> <<>>],
      [group |-> "trading", field |-> "crypto_symbols", value |-> List(<<>>)]>>

\* A caller evaluates config.<group>.<field> = value.
CallerSetAttr(i, a) ==
    /\ i \in Held
    /\ n_setattr < MaxSetattr
    /\ a.group \in DOMAIN heap[i]
    /\ heap' = [heap EXCEPT ![i][a.group][a.field] = a.value]
    /\ n_setattr' = n_setattr + 1
    /\ last' = Outcome("setattr", i, a, FALSE, None, <<>>)
    /\ UNCHANGED <<environ, dotenv_file, module, class_env, defaults, _instance,
                   init_count, returned, n_env, pc, ret>>

EnvChanges ==
    {[key |-> "MAX_POSITION_SIZE", text |-> <<"a", "b", "c">>],
     [key |-> "FIREBASE_PROJECT_ID", text |-> <<"p", "9">>]}

\* The process assigns os.environ[key] = text after the import.
SetEnv(c) ==
    /\ module # "unloaded"
    /\ n_env < MaxEnvChanges
    /\ getenv(environ, c.key, <<"?">>) # c.text
    /\ environ' = [k \in DOMAIN environ \cup {c.key} |->
                      IF k = c.key THEN c.text ELSE environ[k]]
    /\ n_env' = n_env + 1
    /\ last' = Outcome("setenv", 0, c, FALSE, None, <<>>)
    /\ UNCHANGED <<dotenv_file, module, class_env, defaults, _instance, heap,
                   init_count, returned, n_setattr, pc, ret>>

ListArgs == {None, List(<<>>), List(<<"DOGE/USDT">>)}

\* A caller constructs TradingConfig(crypto_symbols=c, stock_symbols=s,
\* commodity_symbols=m); an argument that is not passed is None.
NewTradingConfig(c, s, m) ==
    /\ module = "loaded"
    /\ last' = Outcome("TradingConfig", 0, <<c, s, m>>, FALSE,
                       TradingConfig(defaults, c, s, m), <<>>)
    /\ UNCHANGED <<environ, dotenv_file, module, class_env, defaults, _instance,
                   heap, init_count, returned, n_setattr, n_env, pc, ret>>

\* ------------------------------------------------- concurrent first callers
\* A thread's call of ConfigManager(), one statement of __new__ at a time.
\* Line 89: the test of cls._instance.
TCheck(t) ==
    /\ module = "loaded"
    /\ pc[t] = "start"
    /\ pc' = [pc EXCEPT ![t] = IF InstanceIsNone(_instance) THEN "alloc" ELSE "return"]
    /\ last' = Outcome("check", _instance, [thread |-> t], FALSE, None, <<>>)
    /\ UNCHANGED <<environ, dotenv_file, module, class_env, defaults, _instance,
                   heap, init_count, returned, n_setattr, n_env, ret>>

\* Line 90: cls._instance = super().__new__(cls).
TAlloc(t) ==
    /\ pc[t] = "alloc"
    /\ heap' = Append(heap, NewObject)
    /\ _instance' = Len(heap) + 1
    /\ pc' = [pc EXCEPT ![t] = "init"]
    /\ last' = Outcome("alloc", Len(heap) + 1, [thread |-> t], FALSE, None, <<>>)
    /\ UNCHANGED <<environ, dotenv_file, module, class_env, defaults, init_count,
                   returned, n_setattr, n_env, ret>>

\* Line 91: cls._instance._initialize(), on the object cls._instance names
\* at that moment.
TInit(t, fault) ==
    /\ pc[t] = "init"
    /\ LET r == _initialize(heap[_instance], defaults, fault)
       IN  /\ heap' = [heap EXCEPT ![_instance] = r.self]
           /\ pc' = [pc EXCEPT ![t] = IF r.raised THEN "raised" ELSE "return"]
           /\ last' = Outcome("_initialize", _instance,
                              [thread |-> t, fault |-> fault], r.raised, None, r.log)
    /\ init_count' = init_count + 1
    /\ UNCHANGED <<environ, dotenv_file, module, class_env, defaults, _instance,
                   returned, n_setattr, n_env, ret>>

\* Line 92: return cls._instance.
TReturn(t) ==
    /\ pc[t] = "return"
    /\ ret' = [ret EXCEPT ![t] = _instance]
    /\ pc' = [pc EXCEPT ![t] = "done"]
    /\ last' = Outcome("return", _instance, [thread |-> t], FALSE, _instance, <<>>)
    /\ UNCHANGED <<environ, dotenv_file, module, class_env, defaults, _instance,
                   heap, init_count, returned, n_setattr, n_env>>

\* ----------------------------------------------------------- specifications
\* Sequential callers of the module.
Next ==
    \/ LoadModule
    \/ \E fault \in Faults : Access(fault)
    \/ \E i \in 1..Len(heap) : Validate(i)
    \/ \E i \in 1..Len(heap) : ToDict(i)
    \/ \E i \in 1..Len(heap) : SaveToFirebase(i)
    \/ \E i \in 1..Len(heap), k \in 1..Len(Assignments) :
           CallerSetAttr(i, Assignments[k])
    \/ \E c \in EnvChanges : SetEnv(c)

Spec == Init /\ [][Next]_vars

\* Direct construction of TradingConfig with every choice of list arguments.
NextTrading ==
    \/ LoadModule
    \/ \E c, s, m \in ListArgs : NewTradingConfig(c, s, m)

SpecTrading == Init /\ [][NextTrading]_vars

\* Threads that call ConfigManager() while no instance exists yet.
NextThreads ==
    \/ LoadModule
    \/ \E t \in Threads : TCheck(t)
    \/ \E t \in Threads : TAlloc(t)
    \/ \E t \in Threads, fault \in Faults : TInit(t, fault)
    \/ \E t \in Threads : TReturn(t)

SpecThreads == Init /\ [][NextThreads]_vars

\* =================================================================== claims
Required == {"project_id", "private_key", "client_email"}

\* The three required credentials are non-empty and the key begins with the
\* PEM header, character by character.
CredentialsValid(fb) ==
    /\ \A f \in Required : fb[f] # <<>>
    /\ \A k \in 1..Len(PEM_HEADER) :
          Len(fb.private_key) >= k /\ fb.private_key[k] = PEM_HEADER[k]

Warned(log) == \E k \in 1..Len(log) : log[k].level = "WARNING"

\* C1: every sequential ConfigManager() call that returns yields the one
\* instance, _initialize runs at most once and only one object is ever
\* allocated; a call made when the instance exists changes neither the
\* instance nor its groups, and an assignment made through one reference is
\* seen through every reference returned.
C1_SingletonIdentity ==
    /\ [](/\ \A k \in 1..Len(returned) : returned[k] # 0 => returned[k] = _instance
          /\ init_count <= 1
          /\ Len(heap) <= 1)
    /\ [][/\ (last'.op = "ConfigManager" /\ _instance # 0) =>
                /\ heap' = heap
                /\ _instance' = _instance
                /\ init_count' = init_count
                /\ returned' = Append(returned, _instance)
          /\ last'.op = "setattr" =>
                \A k \in 1..Len(returned') :
                    returned'[k] # 0 =>
                        heap'[returned'[k]][last'.args.group][last'.args.field]
                            = last'.args.value]_vars

C1_Witness ==
    /\ Len(returned) >= 2
    /\ returned[1] # 0
    /\ returned[2] # 0
    /\ last.op = "setattr"

\* C2: validate() returns True exactly when the three required fields are
\* non-empty and the private key begins with the PEM header; it never raises
\* and never assigns a field.
C2_ValidateIff ==
    /\ [](last.op = "validate" =>
            /\ ~last.raised
            /\ last.result = CredentialsValid(heap[last.self].firebase))
    /\ [][last'.op = "validate" => heap' = heap]_vars

C2_Witness ==
    /\ last.op = "validate"
    /\ last.result = FALSE
    /\ \A f \in Required : heap[last.self].firebase[f] # <<>>

\* C3: in the call that runs _initialize, a failed credential validation is
\* not fatal: unless a statement of _initialize itself raised, the call
\* returns an instance with the three groups set, and the warning is logged
\* exactly when validation was reached and failed.
C3_ValidationNotFatal ==
    (last.op = "ConfigManager" /\ last.args.ran_init) =>
        /\ last.raised => last.args.fault # "none"
        /\ last.args.fault = "none" =>
              /\ ~last.raised
              /\ last.result # 0
              /\ DOMAIN heap[last.result] = GroupNames
        /\ Warned(last.log) <=>
              /\ last.args.fault = "none"
              /\ ~CredentialsValid(heap[last.result].firebase)

C3_Witness ==
    /\ last.op = "ConfigManager"
    /\ last.args.ran_init
    /\ ~last.raised
    /\ Warned(last.log)
    /\ DOMAIN heap[last.result] = GroupNames

\* C4: each symbol list of a constructed TradingConfig is the list the
\* caller passed, the empty list included, and the literal default only when
\* the argument was None.
C4_SymbolLists ==
    last.op = "TradingConfig" =>
        /\ last.result.crypto_symbols =
              IF last.args[1] = None
              THEN List(<<"BTC/USDT", "ETH/USDT", "SOL/USDT">>) ELSE last.args[1]
        /\ last.result.stock_symbols =
              IF last.args[2] = None
              THEN List(<<"AAPL", "MSFT", "GOOGL">>) ELSE last.args[2]
        /\ last.result.commodity_symbols =
              IF last.args[3] = None
              THEN List(<<"GC=F", "SI=F", "CL=F">>) ELSE last.args[3]

C4_Witness ==
    /\ last.op = "TradingConfig"
    /\ last.args[1] = List(<<>>)
    /\ last.args[2] = None
    /\ last.result.crypto_symbols = List(<<>>)
    /\ last.result.stock_symbols.items[1] = "AAPL"

\* C5: when the environment the class bodies read holds non-numeric text
\* for a float or int variable, the import fails and no defaults, no
\* instance and no reference ever exist.
NonNumeric(e) ==
    \/ \E k \in FloatKeys \cap DOMAIN e : e[k] = <<"a", "b", "c">>
    \/ \E k \in IntKeys \cap DOMAIN e : e[k] \in {<<"a", "b", "c">>, <<"-", "3", ".", "5">>}

C5_ParseFailureFatal ==
    NonNumeric(class_env) =>
        /\ module = "failed"
        /\ defaults = <<>>
        /\ heap = <<>>
        /\ _instance = 0
        /\ returned = <<>>

C5_Witness ==
    /\ module = "failed"
    /\ "MAX_POSITION_SIZE" \in DOMAIN class_env
    /\ class_env["MAX_POSITION_SIZE"] = <<"a", "b", "c">>
    /\ n_env > 0

\* C6: once the singleton exists, no step other than a caller's own
\* assignment (further ConfigManager() calls, validate, to_dict,
\* save_to_firebase, a change of the environment) changes the singleton or
\* the values of its groups.
C6_GroupsNeverChange ==
    [][(_instance # 0 /\ last'.op # "setattr") =>
          /\ _instance' = _instance
          /\ heap'[_instance] = heap[_instance]]_vars

C6_Witness ==
    /\ _instance # 0
    /\ n_env > 0
    /\ n_setattr > 0
    /\ Len(returned) >= 2
    /\ last.op = "to_dict"

\* C7: a to_dict() call that returns yields a mapping with exactly the keys
\* firebase, trading and rl, each holding every declared field of the group
\* with the group's current value, the private key and client email as they
\* are.
C7_ToDictComplete ==
    (last.op = "to_dict" /\ ~last.raised) =>
        LET r == last.result
            o == heap[last.self]
        IN  /\ DOMAIN r = {"firebase", "trading", "rl"}
            /\ DOMAIN r.firebase = FirebaseFields
            /\ DOMAIN r.trading = TradingFields
            /\ DOMAIN r.rl = RLFields
            /\ \A f \in FirebaseFields : r.firebase[f] = o.firebase[f]
            /\ \A f \in TradingFields : r.trading[f] = o.trading[f]
            /\ \A f \in RLFields : r.rl[f] = o.rl[f]

C7_Witness ==
    /\ last.op = "to_dict"
    /\ ~last.raised
    /\ last.result.firebase.private_key # <<>>
    /\ last.result.firebase.client_email # <<>>

\* C8: when every thread's ConfigManager() call has returned, one object was
\* allocated, _initialize ran once and all threads hold the same instance.
C8_ExactlyOneConstruction ==
    (\A t \in Threads : pc[t] = "done") =>
        /\ Len(heap) = 1
        /\ init_count = 1
        /\ \A t, u \in Threads : ret[t] = ret[u]

\* C9: when one of the three required fields is empty, validate() logs one
\* missing-fields error naming exactly the empty required fields, each once,
\* and does not log the private-key format error.
ValidateRan ==
    \/ last.op = "validate"
    \/ last.op = "ConfigManager" /\ last.args.ran_init /\ last.args.fault = "none"

ErrorsLogged == SelectSeq(last.log, LAMBDA x : x.level = "ERROR")

C9_MissingFieldsExact ==
    LET fb == heap[last.self].firebase
        empties == {f \in Required : fb[f] = <<>>}
    IN  (ValidateRan /\ empties # {}) =>
            /\ Len(ErrorsLogged) = 1
            /\ ErrorsLogged[1].message = "Missing Firebase config fields"
            /\ {ErrorsLogged[1].detail[k] : k \in 1..Len(ErrorsLogged[1].detail)} = empties
            /\ Len(ErrorsLogged[1].detail) = Cardinality(empties)

C9_Witness ==
    /\ last.op = "validate"
    /\ heap[last.self].firebase.project_id # <<>>
    /\ heap[last.self].firebase.private_key = <<>>
    /\ heap[last.self].firebase.client_email = <<>>
    /\ Len(last.log) = 1

\* C10: every instance a ConfigManager() call returned has its firebase,
\* trading and rl groups set.
C10_NoPartialInstance ==
    \A k \in 1..Len(returned) :
        returned[k] # 0 => GroupNames \subseteq DOMAIN heap[returned[k]]

====
